---- MODULE Spec2Model ----
(***************************************************************************)
(* A model of kernelmethods/sampling.py: the KernelBucket container with   *)
(* its parametrized expansion, the make_kernel_bucket factory and the      *)
(* pairwise_similarity engine.                                             *)
(*                                                                         *)
(* Spec     : construction of a bucket (directly or through the factory)   *)
(*            followed by add_parametrized_kernels calls; every call is    *)
(*            one atomic action (the code is synchronous).                 *)
(* SpecSim  : one call of pairwise_similarity on a constructed bucket,     *)
(*            one action per statement / per metric evaluation.            *)
(***************************************************************************)
EXTENDS Integers, Sequences, FiniteSets, TLC

\* ------------------------------------------------------------------ bounds
\* most parameter values supplied by the caller over one run
\* (constructor iterables plus later add_parametrized_kernels calls)
MaxValues == 2
\* most add_parametrized_kernels / pass-through calls after construction
MaxCalls == 2
\* largest bucket handed to pairwise_similarity
MaxKernels == 3

VARIABLES
    pc,         \* "start" | "ready" (a bucket exists) | "raised" (construction failed)
    self,       \* the KernelBucket object
    warnings,   \* the warnings emitted so far, in order
    exc,        \* the exception the last operation raised, or "none"
    last,       \* the last operation and its arguments
    pre,        \* km_set and warnings as they were when the last operation began
    ncalls,     \* operations after construction
    sim         \* the frame of the running pairwise_similarity call

vars == <<pc, self, warnings, exc, last, pre, ncalls, sim>>

\* everything but the pairwise_similarity frame
bucket == <<pc, self, warnings, exc, last, pre, ncalls>>

\* ------------------------------------------------------------- python values
None == [kind |-> "None", items |-> <<>>]
Scalar == [kind |-> "scalar", items |-> <<>>]
Str == [kind |-> "str", items |-> <<>>]
Iterable(items) == [kind |-> "iterable", items |-> items]

\* The k values 1..k of an iterable, each with whether instantiating the
\* kernel function for it, wrapping it or appending it raises.
ItemSeqs(k) == [1..k -> BOOLEAN]
Items(flags) == [i \in 1..Len(flags) |-> [val |-> i, raises |-> flags[i]]]

\* every values argument holding at most n values
ValuesInputs(n) ==
    {None, Scalar, Str}
        \cup {Iterable(Items(f)) : f \in UNION {ItemSeqs(k) : k \in 0..n}}

True == [is_bool |-> TRUE, truth |-> TRUE]
False == [is_bool |-> TRUE, truth |-> FALSE]
\* a truthy object that is no bool, such as the int 1
NotBool == [is_bool |-> FALSE, truth |-> TRUE]
FlagInputs == {True, False, NotBool}

Class(n) == [name |-> n, is_type |-> TRUE]
Instance(n) == [name |-> n, is_type |-> FALSE]

LinearKernel == Class("LinearKernel")
PolyKernel == Class("PolyKernel")
GaussianKernel == Class("GaussianKernel")
LaplacianKernel == Class("LaplacianKernel")
SigmoidKernel == Class("SigmoidKernel")

\* the classes derived from BaseKernelFunction
BaseKernelFunction ==
    {"LinearKernel", "PolyKernel", "GaussianKernel", "LaplacianKernel",
     "SigmoidKernel"}

isinstance_type(obj) == obj.is_type
issubclass(cls, family) == cls.name \in family

is_iterable_but_not_str(values, min_length) ==
    /\ values.kind = "iterable"
    /\ Len(values.items) >= min_length

\* ------------------------------------------------------------ collaborators
\* KernelMatrix(kernel_func(**param_dict), normalized=...)
KernelMatrix(kernel_func, param, val, skip_input_checks, normalized) ==
    [func |-> kernel_func.name, param |-> param, val |-> val,
     skip_input_checks |-> skip_input_checks, normalized |-> normalized]

KernelSet_append(km_set, KM) == Append(km_set, KM)

KernelMethodsWarning(kernel_func, param, val) ==
    [category |-> "KernelMethodsWarning", func |-> kernel_func.name,
     param |-> param, val |-> val]

AdvisoryWarning ==
    [category |-> "UserWarning", func |-> "", param |-> "", val |-> 0]

\* ------------------------------------------------ add_parametrized_kernels
\* A call's outcome: the object, the warnings and the exception raised.
Outcome(s, w, e) == [self |-> s, warnings |-> w, exc |-> e]

\* the body of the loop for one value: try ... except: warn(...)
try_append(r, kernel_func, param, item) ==
    IF item.raises
    THEN Outcome(r.self,
                 Append(r.warnings,
                        KernelMethodsWarning(kernel_func, param, item.val)),
                 r.exc)
    ELSE Outcome([r.self EXCEPT !.km_set =
                     KernelSet_append(@,
                         KernelMatrix(kernel_func, param, item.val,
                                      r.self.skip_input_checks,
                                      r.self.norm_kernels))],
                 r.warnings, r.exc)

RECURSIVE for_val_in_values_stop(_, _, _, _, _)
\* mutant: the try encloses the whole loop, the first failing value ends it
for_val_in_values_stop(r, kernel_func, param, items, i) ==
    IF i > Len(items)
    THEN r
    ELSE IF items[i].raises
         THEN try_append(r, kernel_func, param, items[i])
         ELSE for_val_in_values_stop(try_append(r, kernel_func, param, items[i]),
                                     kernel_func, param, items, i + 1)

RECURSIVE for_val_in_values(_, _, _, _, _)
\* for val in values: from the i-th value on
for_val_in_values(r, kernel_func, param, items, i) ==
    IF i > Len(items)
    THEN r
    ELSE for_val_in_values(try_append(r, kernel_func, param, items[i]),
                           kernel_func, param, items, i + 1)

\* mutant: the None test comes before the kernel-function test
add_parametrized_kernels_none_first(r, kernel_func, param, values) ==
    IF values.kind = "None"
    THEN r
    ELSE IF (~isinstance_type(kernel_func))
              \/ (~issubclass(kernel_func, BaseKernelFunction))
    THEN Outcome(r.self, r.warnings, "KernelMethodsException")
    ELSE IF ~is_iterable_but_not_str(values, 1)
    THEN Outcome(r.self, r.warnings, "ValueError")
    ELSE for_val_in_values(r, kernel_func, param, values.items, 1)

\* mutant: the values argument is not validated; iterating a scalar raises
\* TypeError, a string or an empty iterable is iterated as it is
add_parametrized_kernels_unvalidated(r, kernel_func, param, values) ==
    IF (~isinstance_type(kernel_func))
          \/ (~issubclass(kernel_func, BaseKernelFunction))
    THEN Outcome(r.self, r.warnings, "KernelMethodsException")
    ELSE IF values.kind = "None"
    THEN r
    ELSE IF values.kind = "scalar"
    THEN Outcome(r.self, r.warnings, "TypeError")
    ELSE for_val_in_values(r, kernel_func, param, values.items, 1)

add_parametrized_kernels(r, kernel_func, param, values) ==
    IF (~isinstance_type(kernel_func))
          \/ (~issubclass(kernel_func, BaseKernelFunction))
    THEN Outcome(r.self, r.warnings, "KernelMethodsException")
    ELSE IF values.kind = "None"
    THEN r
    ELSE IF ~is_iterable_but_not_str(values, 1)
    THEN Outcome(r.self, r.warnings, "ValueError")
    ELSE for_val_in_values(r, kernel_func, param, values.items, 1)

\* ------------------------------------------------------ KernelBucket.__init__
NoBucket ==
    [km_set |-> <<>>, name |-> "", norm_kernels |-> FALSE,
     skip_input_checks |-> FALSE, num_samples |-> "None"]

\* mutant: the bucket starts empty
init_kset_empty(normalize_kernels) == <<>>

\* [KernelMatrix(LinearKernel(), normalized=self._norm_kernels), ]
init_kset(normalize_kernels) ==
    <<KernelMatrix(LinearKernel, "", 0, FALSE, normalize_kernels)>>

\* mutant: the Laplacian family is expanded before the Gaussian one
init_families_swapped ==
    << <<PolyKernel, "degree">>, <<LaplacianKernel, "gamma">>,
       <<GaussianKernel, "sigma">>, <<SigmoidKernel, "gamma">>,
       <<SigmoidKernel, "offset">> >>

\* the five expansions of the constructor, in its order; the i-th takes the
\* constructor's i-th values argument
init_families ==
    << <<PolyKernel, "degree">>, <<GaussianKernel, "sigma">>,
       <<LaplacianKernel, "gamma">>, <<SigmoidKernel, "gamma">>,
       <<SigmoidKernel, "offset">> >>

NumFamilies == Len(init_families)

RECURSIVE init_expand(_, _, _)
\* the constructor's add_parametrized_kernels calls from the i-th on; an
\* exception ends the constructor
init_expand(r, values, i) ==
    IF i > NumFamilies \/ r.exc # "none"
    THEN r
    ELSE init_expand(
             add_parametrized_kernels(r, init_families[i][1],
                                      init_families[i][2], values[i]),
             values, i + 1)

\* KernelBucket(values[1], ..., values[5], name, normalize_kernels,
\* skip_input_checks), with the warnings emitted before it
KernelBucket__init__(values, name, normalize_kernels, skip_input_checks, w) ==
    IF ~normalize_kernels.is_bool
    THEN Outcome(NoBucket, w, "TypeError")
    ELSE IF ~skip_input_checks.is_bool
    THEN Outcome(NoBucket, w, "TypeError")
    ELSE init_expand(
             Outcome([km_set |-> init_kset(normalize_kernels.truth),
                      name |-> name,
                      norm_kernels |-> normalize_kernels.truth,
                      skip_input_checks |-> skip_input_checks.truth,
                      num_samples |-> "None"],
                     w, "none"),
             values, 1)

\* --------------------------------------------------------- make_kernel_bucket
UpperCase ==
    <<"A", "B", "C", "D", "E", "F", "G", "H", "I", "J", "K", "L", "M",
      "N", "O", "P", "Q", "R", "S", "T", "U", "V", "W", "X", "Y", "Z">>
LowerCase ==
    <<"a", "b", "c", "d", "e", "f", "g", "h", "i", "j", "k", "l", "m",
      "n", "o", "p", "q", "r", "s", "t", "u", "v", "w", "x", "y", "z">>

\* str.lower() of a string held as its sequence of characters
Lower(s) ==
    [i \in 1..Len(s) |->
        IF \E k \in 1..Len(UpperCase) : UpperCase[k] = s[i]
        THEN LowerCase[CHOOSE k \in 1..Len(UpperCase) : UpperCase[k] = s[i]]
        ELSE s[i]]

exhaustive == <<"e", "x", "h", "a", "u", "s", "t", "i", "v", "e">>
light == <<"l", "i", "g", "h", "t">>
linear_only == <<"l", "i", "n", "e", "a", "r", "_", "o", "n", "l", "y">>

\* the parameter grids of kernelmethods.config: two values per family for
\* the exhaustive preset, one for the light preset
cfg_default_values == [i \in 1..NumFamilies |-> Iterable(Items(<<FALSE, FALSE>>))]
cfg_light_values == [i \in 1..NumFamilies |-> Iterable(Items(<<FALSE>>))]

\* mutant: the strategy is compared as it was written
strategy_as_given(strategy) == strategy

\* strategy = strategy.lower()
strategy_lower(strategy) == Lower(strategy)

\* make_kernel_bucket(strategy, normalize_kernels, skip_input_checks) for a
\* strategy that is a string
make_kernel_bucket(strategy, normalize_kernels, skip_input_checks, w) ==
    LET s == strategy_lower(strategy) IN
    IF s = exhaustive
    THEN KernelBucket__init__(cfg_default_values, "KBucketExhaustive",
                              normalize_kernels, skip_input_checks, w)
    ELSE IF s = light
    THEN KernelBucket__init__(cfg_light_values, "KBucketLight",
                              normalize_kernels, skip_input_checks, w)
    ELSE IF s = linear_only
    THEN KernelBucket__init__([i \in 1..NumFamilies |-> None], "KBucketLight",
                              normalize_kernels, skip_input_checks, w)
    ELSE Outcome(NoBucket, w, "ValueError")

\* ------------------------------------------------------------------ inputs
StrategyInputs ==
    {linear_only,
     <<"L", "I", "N", "E", "A", "R", "_", "O", "N", "L", "Y">>,
     <<"L", "i", "n", "e", "a", "r", "_", "O", "n", "l", "y">>,
     light,
     <<"L", "i", "g", "h", "t">>,
     exhaustive,
     <<"l", "i", "n", "e", "a", "r">>}

\* kernel_func arguments: kernel-function classes, an unrelated class, and
\* an object that is no class (an instance of a kernel function)
KernelFuncInputs ==
    {LaplacianKernel, Class("int"), Instance("PolyKernel")}

ParamInputs == {"degree", "gamma"}

NoValues == [i \in 1..NumFamilies |-> None]

NoCall ==
    [op |-> "none", kernel_func |-> Class(""), param |-> "", values |-> None,
     families |-> NoValues, strategy |-> <<>>,
     normalize_kernels |-> True, skip_input_checks |-> False]

NoSim ==
    [pc |-> "idle", metric |-> "", num_kernels |-> 0, estimator |-> "",
     pairwise_metric |-> <<>>, done |-> 0, evals |-> <<>>, exc |-> "none"]

\* the values processed so far: one entry or one warning each
Processed(s, w) ==
    (Len(s.km_set) - 1)
        + Cardinality({i \in 1..Len(w) : w[i].category = "KernelMethodsWarning"})

Remaining(s, w) ==
    IF Processed(s, w) >= MaxValues THEN 0 ELSE MaxValues - Processed(s, w)

\* ----------------------------------------------------------------- actions
Init ==
    /\ pc = "start"
    /\ self = NoBucket
    /\ warnings = <<>>
    /\ exc = "none"
    /\ last = NoCall
    /\ pre = [km_set |-> <<>>, warnings |-> <<>>]
    /\ ncalls = 0
    /\ sim = NoSim

Finish(r) ==
    /\ self' = r.self
    /\ warnings' = r.warnings
    /\ exc' = r.exc
    /\ pre' = [km_set |-> self.km_set, warnings |-> warnings]

\* KernelBucket(poly, rbf, laplace, sigmoid_gamma, sigmoid_offset, ...)
New ==
    /\ pc = "start"
    /\ \E a1 \in ValuesInputs(MaxValues) :
       \E a2 \in ValuesInputs(MaxValues - Len(a1.items)) :
       \E a3 \in ValuesInputs(MaxValues - Len(a1.items) - Len(a2.items)) :
       \E a4 \in ValuesInputs(MaxValues - Len(a1.items) - Len(a2.items)
                                - Len(a3.items)) :
       \E a5 \in ValuesInputs(MaxValues - Len(a1.items) - Len(a2.items)
                                - Len(a3.items) - Len(a4.items)) :
       \E nk \in FlagInputs, sic \in FlagInputs :
          LET r == KernelBucket__init__(<<a1, a2, a3, a4, a5>>, "KernelBucket",
                                        nk, sic, warnings)
          IN /\ Finish(r)
             /\ pc' = IF r.exc = "none" THEN "ready" ELSE "raised"
             /\ last' = [NoCall EXCEPT !.op = "KernelBucket",
                                       !.families = <<a1, a2, a3, a4, a5>>,
                                       !.normalize_kernels = nk,
                                       !.skip_input_checks = sic]
    /\ UNCHANGED <<ncalls, sim>>

\* make_kernel_bucket(strategy, normalize_kernels, skip_input_checks)
Make ==
    /\ pc = "start"
    /\ \E strategy \in StrategyInputs, nk \in FlagInputs, sic \in FlagInputs :
          LET r == make_kernel_bucket(strategy, nk, sic, warnings)
          IN /\ Finish(r)
             /\ pc' = IF r.exc = "none" THEN "ready" ELSE "raised"
             /\ last' = [NoCall EXCEPT !.op = "make_kernel_bucket",
                                       !.strategy = strategy,
                                       !.normalize_kernels = nk,
                                       !.skip_input_checks = sic]
    /\ UNCHANGED <<ncalls, sim>>

\* make_kernel_bucket(bucket): the bucket is returned as it is, with a warning
PassThrough ==
    /\ pc = "ready"
    /\ ncalls < MaxCalls
    /\ Finish(Outcome(self, Append(warnings, AdvisoryWarning), "none"))
    /\ last' = [NoCall EXCEPT !.op = "pass_through"]
    /\ ncalls' = ncalls + 1
    /\ UNCHANGED <<pc, sim>>

\* bucket.add_parametrized_kernels(kernel_func, param, values)
Add ==
    /\ pc = "ready"
    /\ ncalls < MaxCalls
    /\ \E kernel_func \in KernelFuncInputs, param \in ParamInputs,
          values \in ValuesInputs(Remaining(self, warnings)) :
          /\ Finish(add_parametrized_kernels(Outcome(self, warnings, "none"),
                                             kernel_func, param, values))
          /\ last' = [NoCall EXCEPT !.op = "add_parametrized_kernels",
                                    !.kernel_func = kernel_func,
                                    !.param = param,
                                    !.values = values]
    /\ ncalls' = ncalls + 1
    /\ UNCHANGED <<pc, sim>>

Next == New \/ Make \/ PassThrough \/ Add

Spec == Init /\ [][Next]_vars

\* -------------------------------------------------------- pairwise_similarity
\* A float: a number, or not-a-number.
Num(v) == [nan |-> FALSE, v |-> v]
NaN == [nan |-> TRUE, v |-> 0]

\* a == b on floats: not-a-number equals nothing, itself included
FloatEq(a, b) == (~a.nan) /\ (~b.nan) /\ a.v = b.v

\* what correlation_km can return: pearsonr's coefficient, which is
\* not-a-number when one of the matrices has zero variance
correlation_km_range == {Num(0), Num(1), NaN}

\* what alignment_centered(..., value_if_zero_division=0.0) can return
alignment_centered_range == {Num(0), Num(1)}

estimator_range(estimator) ==
    IF estimator = "correlation_km"
    THEN correlation_km_range
    ELSE alignment_centered_range

metric_func == [corr |-> "correlation_km", align |-> "alignment_centered"]

\* mutant: metric_func.get(metric, correlation_km)
metric_lookup_default(metric) ==
    IF metric \in DOMAIN metric_func
    THEN [exc |-> "none", estimator |-> metric_func[metric]]
    ELSE [exc |-> "none", estimator |-> "correlation_km"]

\* metric_func[metric]
metric_lookup(metric) ==
    IF metric \in DOMAIN metric_func
    THEN [exc |-> "none", estimator |-> metric_func[metric]]
    ELSE [exc |-> "KeyError", estimator |-> ""]

\* k_bucket.size, k_bucket[idx] (indices from 0) and KernelMatrix.full
size(k_bucket) == Len(k_bucket.km_set)
getitem(k_bucket, idx) == k_bucket.km_set[idx + 1]
full(KM) == [full_of |-> KM]

Indices(n) == (0..(n - 1)) \X (0..(n - 1))

\* np.full((n, n), fill_value=np.nan)
np_full(n) == [c \in Indices(n) |-> NaN]

\* mutant: range(idx_one + 1, num_kernels), the diagonal is skipped
inner_range_off_diagonal(idx_one, num_kernels) ==
    (idx_one + 1)..(num_kernels - 1)

\* range(idx_one, num_kernels)
inner_range(idx_one, num_kernels) == idx_one..(num_kernels - 1)

RECURSIVE Ascending(_)
\* a set of integers as the sequence a range yields
Ascending(S) ==
    IF S = {}
    THEN <<>>
    ELSE LET m == CHOOSE x \in S : \A y \in S : x <= y
         IN <<m>> \o Ascending(S \ {m})

RECURSIVE loop_pairs(_, _)
\* the (idx_one, idx_two) pairs of the nested loops in the order they run,
\* from row idx_one on
loop_pairs(idx_one, num_kernels) ==
    IF idx_one >= num_kernels
    THEN <<>>
    ELSE [k \in 1..Cardinality(inner_range(idx_one, num_kernels)) |->
             <<idx_one, Ascending(inner_range(idx_one, num_kernels))[k]>>]
         \o loop_pairs(idx_one + 1, num_kernels)

\* np.tril_indices(n) and np.triu_indices(n)
tril_indices(n) == {c \in Indices(n) : c[1] >= c[2]}
triu_indices(n) == {c \in Indices(n) : c[1] <= c[2]}

\* mutant: the mirroring step is left out
mirror_omitted(pairwise_metric, num_kernels) == pairwise_metric

\* mutant: the upper triangle is overwritten from the lower one
mirror_upper(pairwise_metric, num_kernels) ==
    [c \in DOMAIN pairwise_metric |->
        IF c \in triu_indices(num_kernels)
        THEN pairwise_metric[<<c[2], c[1]>>]
        ELSE pairwise_metric[c]]

\* pairwise_metric[idx_lower_tri] = pairwise_metric.T[idx_lower_tri]: the
\* right-hand side is read (copied) before any cell is written
mirror(pairwise_metric, num_kernels) ==
    [c \in DOMAIN pairwise_metric |->
        IF c \in tril_indices(num_kernels)
        THEN pairwise_metric[<<c[2], c[1]>>]
        ELSE pairwise_metric[c]]

MetricInputs == {"corr", "align", "mutual_info"}

\* the buckets KernelBucket builds from n - 1 polynomial degrees
SimBuckets ==
    {KernelBucket__init__(
         <<IF n = 1 THEN None ELSE Iterable(Items([i \in 1..(n - 1) |-> FALSE])),
           None, None, None, None>>,
         "KernelBucket", True, False, <<>>).self : n \in 1..MaxKernels}

InitSim ==
    /\ pc = "ready"
    /\ self \in SimBuckets
    /\ warnings = <<>>
    /\ exc = "none"
    /\ last = NoCall
    /\ pre = [km_set |-> <<>>, warnings |-> <<>>]
    /\ ncalls = 0
    /\ \E metric \in MetricInputs :
          sim = [NoSim EXCEPT !.pc = "size", !.metric = metric]

\* num_kernels = k_bucket.size
ReadSize ==
    /\ UNCHANGED bucket
    /\ sim.pc = "size"
    /\ sim' = [sim EXCEPT !.pc = "lookup", !.num_kernels = size(self)]

\* estimator = metric_func[metric]
Lookup ==
    /\ UNCHANGED bucket
    /\ sim.pc = "lookup"
    /\ LET r == metric_lookup(sim.metric)
       IN sim' = IF r.exc = "none"
                 THEN [sim EXCEPT !.pc = "alloc", !.estimator = r.estimator]
                 ELSE [sim EXCEPT !.pc = "raised", !.exc = r.exc]

\* pairwise_metric = np.full((k_bucket.size, k_bucket.size), fill_value=np.nan)
Allocate ==
    /\ UNCHANGED bucket
    /\ sim.pc = "alloc"
    /\ sim' = [sim EXCEPT !.pc = "loop", !.pairwise_metric = np_full(size(self))]

\* one pass of the inner loop's body: the estimator returns
Evaluate ==
    /\ UNCHANGED bucket
    /\ sim.pc = "loop"
    /\ sim.done < Len(loop_pairs(0, sim.num_kernels))
    /\ LET c == loop_pairs(0, sim.num_kernels)[sim.done + 1]
           k1 == full(getitem(self, c[1]))
           k2 == full(getitem(self, c[2]))
       IN \E ret \in estimator_range(sim.estimator) :
             sim' = [sim EXCEPT
                        !.pairwise_metric = [@ EXCEPT ![c] = ret],
                        !.done = @ + 1,
                        !.evals = Append(@, [idx_one |-> c[1], idx_two |-> c[2],
                                             k1 |-> k1, k2 |-> k2, ret |-> ret])]

\* one pass of the inner loop's body: the estimator (or .full) raises
EvaluateRaises ==
    /\ UNCHANGED bucket
    /\ sim.pc = "loop"
    /\ sim.done < Len(loop_pairs(0, sim.num_kernels))
    /\ sim' = [sim EXCEPT !.pc = "raised", !.exc = "ValueError"]

\* the loops are over
LoopExit ==
    /\ UNCHANGED bucket
    /\ sim.pc = "loop"
    /\ sim.done = Len(loop_pairs(0, sim.num_kernels))
    /\ sim' = [sim EXCEPT !.pc = "mirror"]

\* idx_lower_tri = np.tril_indices(num_kernels); the mirroring assignment
Mirror ==
    /\ UNCHANGED bucket
    /\ sim.pc = "mirror"
    /\ sim' = [sim EXCEPT !.pc = "return",
                          !.pairwise_metric = mirror(@, sim.num_kernels)]

\* return pairwise_metric
Return ==
    /\ UNCHANGED bucket
    /\ sim.pc = "return"
    /\ sim' = [sim EXCEPT !.pc = "done"]

NextSim ==
    \/ ReadSize
    \/ Lookup
    \/ Allocate
    \/ Evaluate
    \/ EvaluateRaises
    \/ LoopExit
    \/ Mirror
    \/ Return

SpecSim == InitSim /\ [][NextSim]_vars

\* ================================================================== claims
\* -------------------------------------------------- helpers of the statements
IsLinear(KM) == KM.func = "LinearKernel"

ValidKernelFunc(kernel_func) ==
    kernel_func.is_type /\ kernel_func.name \in BaseKernelFunction

Malformed(values) ==
    \/ values.kind \in {"scalar", "str"}
    \/ values.kind = "iterable" /\ values.items = <<>>

Raising(items) == SelectSeq(items, LAMBDA it : it.raises)
Succeeding(items) == SelectSeq(items, LAMBDA it : ~it.raises)

\* a is the beginning of b
IsPrefix(a, b) == Len(a) <= Len(b) /\ SubSeq(b, 1, Len(a)) = a

\* what b holds after its first n elements
After(b, n) == SubSeq(b, n + 1, Len(b))

Vals(items) == [i \in 1..Len(items) |-> items[i].val]

AfterAdd == pc = "ready" /\ last.op = "add_parametrized_kernels"

Unmodified == self.km_set = pre.km_set /\ warnings = pre.warnings

\* C1: whenever a bucket exists, after construction with any arguments and
\* after any later add_parametrized_kernels call (successful, no-op or
\* raising), its entry at index 0 is the linear kernel.
C1_LinearFirst ==
    pc = "ready" => Len(self.km_set) >= 1 /\ IsLinear(self.km_set[1])

\* a bucket that grew at construction, grew again by a later call, and whose
\* last call raised
C1_Witness ==
    /\ pc = "ready"
    /\ ncalls = 2
    /\ exc # "none"
    /\ Len(self.km_set) >= 3
    /\ IsLinear(self.km_set[1])

\* C2: one add_parametrized_kernels call with a valid kernel-function type:
\* with values None nothing is added and nothing is warned; with k >= 1
\* values of which f raise the call does not raise, the bucket gains the
\* k - f other values in their order and f warnings are emitted, one per
\* dropped value.
C2_PartialFailure ==
    (AfterAdd /\ ValidKernelFunc(last.kernel_func)) =>
        /\ last.values.kind = "None" => exc = "none" /\ Unmodified
        /\ (last.values.kind = "iterable" /\ Len(last.values.items) >= 1) =>
              LET items == last.values.items
                  k == Len(items)
                  f == Len(Raising(items))
                  gained == After(self.km_set, Len(pre.km_set))
                  warned == After(warnings, Len(pre.warnings))
              IN /\ exc = "none"
                 /\ IsPrefix(pre.km_set, self.km_set)
                 /\ IsPrefix(pre.warnings, warnings)
                 /\ Len(gained) = k - f
                 /\ Len(warned) = f
                 /\ [i \in 1..Len(gained) |-> gained[i].val] = Vals(Succeeding(items))
                 /\ [i \in 1..Len(warned) |-> warned[i].val] = Vals(Raising(items))
                 /\ \A i \in 1..Len(warned) :
                       warned[i].category = "KernelMethodsWarning"

\* a call whose first value raised and whose second value was added
C2_Witness ==
    /\ AfterAdd
    /\ ValidKernelFunc(last.kernel_func)
    /\ Len(last.values.items) = 2
    /\ last.values.items[1].raises
    /\ ~last.values.items[2].raises
    /\ Len(self.km_set) = Len(pre.km_set) + 1
    /\ Len(warnings) = Len(pre.warnings) + 1

\* C3: add_parametrized_kernels with a kernel_func that is no class derived
\* from BaseKernelFunction raises KernelMethodsException whatever the values
\* argument is, None included, and leaves the bucket as it was.
C3_InvalidKernelFunc ==
    (AfterAdd /\ ~ValidKernelFunc(last.kernel_func)) =>
        exc = "KernelMethodsException" /\ Unmodified

\* an unrelated class with values None, on a bucket of several entries
C3_Witness ==
    /\ AfterAdd
    /\ last.kernel_func = Class("int")
    /\ last.values.kind = "None"
    /\ exc = "KernelMethodsException"
    /\ Len(self.km_set) >= 2

\* the first malformed values argument of the constructor, 0 when none
FirstMalformed(families) ==
    IF \E i \in 1..NumFamilies : Malformed(families[i])
    THEN CHOOSE i \in 1..NumFamilies :
             /\ Malformed(families[i])
             /\ \A j \in 1..(i - 1) : ~Malformed(families[j])
    ELSE 0

RECURSIVE CountBefore(_, _, _)
\* the values of the families before the n-th that raise (or do not)
CountBefore(families, n, raises) ==
    IF n <= 1
    THEN 0
    ELSE CountBefore(families, n - 1, raises)
            + Len(SelectSeq(families[n - 1].items,
                            LAMBDA it : it.raises = raises))

\* C4: with a valid kernel-function type, a values argument that is a
\* scalar, a bare string or an empty iterable raises ValueError before any
\* value is processed: no entry is appended, no warning is emitted; given
\* to the constructor for one of the five families (with boolean flags) the
\* ValueError ends the construction.
C4_MalformedValues ==
    /\ (AfterAdd /\ ValidKernelFunc(last.kernel_func) /\ Malformed(last.values)) =>
          exc = "ValueError" /\ Unmodified
    /\ (/\ last.op = "KernelBucket"
        /\ last.normalize_kernels.is_bool
        /\ last.skip_input_checks.is_bool
        /\ FirstMalformed(last.families) > 0) =>
          LET n == FirstMalformed(last.families)
          IN /\ pc = "raised"
             /\ exc = "ValueError"
             /\ Len(self.km_set)
                   = 1 + CountBefore(last.families, n, FALSE)
             /\ Len(warnings)
                   = CountBefore(last.families, n, TRUE)

\* a constructor whose polynomial degrees were expanded and whose Gaussian
\* sigmas were a bare string
C4_Witness ==
    /\ last.op = "KernelBucket"
    /\ last.families[1].kind = "iterable"
    /\ Len(last.families[1].items) >= 1
    /\ last.families[2] = Str
    /\ pc = "raised"
    /\ exc = "ValueError"

\* C7: make_kernel_bucket with 'linear_only' in any letter case and any
\* boolean flags returns a bucket whose only entry is the linear kernel.
C7_LinearOnly ==
    (/\ last.op = "make_kernel_bucket"
     /\ Lower(last.strategy) = linear_only
     /\ last.normalize_kernels.is_bool
     /\ last.skip_input_checks.is_bool) =>
        /\ pc = "ready"
        /\ exc = "none"
        /\ Len(self.km_set) = 1
        /\ IsLinear(self.km_set[1])
        /\ self.norm_kernels = last.normalize_kernels.truth
        /\ self.skip_input_checks = last.skip_input_checks.truth

\* the strategy written in capitals, with normalization off and checks skipped
C7_Witness ==
    /\ last.op = "make_kernel_bucket"
    /\ last.strategy # linear_only
    /\ Lower(last.strategy) = linear_only
    /\ last.strategy[1] = "L" /\ last.strategy[2] = "I"
    /\ last.normalize_kernels = False
    /\ last.skip_input_checks = True
    /\ pc = "ready"
    /\ Len(self.km_set) = 1

\* the order the statement gives: kernel function and parameter per family
StatedOrder ==
    << <<"PolyKernel", "degree">>, <<"GaussianKernel", "sigma">>,
       <<"LaplacianKernel", "gamma">>, <<"SigmoidKernel", "gamma">>,
       <<"SigmoidKernel", "offset">> >>

RECURSIVE StatedEntries(_, _, _)
\* the entries the families from the i-th on contribute
StatedEntries(families, s, i) ==
    IF i > Len(StatedOrder)
    THEN <<>>
    ELSE [k \in 1..Len(Succeeding(families[i].items)) |->
             [func |-> StatedOrder[i][1], param |-> StatedOrder[i][2],
              val |-> Succeeding(families[i].items)[k].val,
              skip_input_checks |-> s.skip_input_checks,
              normalized |-> s.norm_kernels]]
         \o StatedEntries(families, s, i + 1)

\* C8: after construction the entries are the linear kernel, then the added
\* polynomial degrees, Gaussian sigmas, Laplacian gammas, sigmoid gammas and
\* sigmoid offsets, each family in the order of its values; an absent family
\* or a skipped value contributes nothing.
C8_EntryOrder ==
    (pc = "ready" /\ last.op = "KernelBucket") =>
        /\ Len(self.km_set) >= 1
        /\ IsLinear(self.km_set[1])
        /\ After(self.km_set, 1) = StatedEntries(last.families, self, 1)

\* a skipped and an added Gaussian sigma, the other families absent
C8_Witness ==
    /\ pc = "ready"
    /\ last.op = "KernelBucket"
    /\ last.families[1] = None
    /\ Len(last.families[2].items) = 2
    /\ last.families[2].items[1].raises
    /\ ~last.families[2].items[2].raises
    /\ Len(self.km_set) = 2
    /\ self.km_set[2].func = "GaussianKernel"
    /\ self.km_set[2].val = 2

\* ----------------------------------------- statements on pairwise_similarity
\* how often the estimator was called for the index pair c
TimesEvaluated(c) ==
    Cardinality({k \in 1..Len(sim.evals) :
                    sim.evals[k].idx_one = c[1] /\ sim.evals[k].idx_two = c[2]})

\* what the estimator returned for the index pair (i, j)
Returned(i, j) ==
    sim.evals[CHOOSE k \in 1..Len(sim.evals) :
                 sim.evals[k].idx_one = i /\ sim.evals[k].idx_two = j].ret

Min(a, b) == IF a <= b THEN a ELSE b
Max(a, b) == IF a <= b THEN b ELSE a

AllReturnsDefined == \A k \in 1..Len(sim.evals) : ~sim.evals[k].ret.nan

C6_UnknownMetric ==
    (sim.pc # "idle" /\ sim.metric \notin {"corr", "align"}) =>
        /\ sim.pc \in {"size", "lookup", "raised"}
        /\ sim.pc = "raised" => sim.exc = "KeyError"
        /\ sim.estimator = ""
        /\ sim.pairwise_metric = <<>>
        /\ sim.evals = <<>>

\* the call on a bucket of two kernels has failed
C6_Witness ==
    /\ sim.metric = "mutual_info"
    /\ sim.pc = "raised"
    /\ sim.exc = "KeyError"
    /\ sim.num_kernels = 2

====
